---- MODULE Spec2Model ----
(***************************************************************************)
(* Model of the group guard bot (src/bot.py): the repeat-spam table SEEN,  *)
(* the per-chat badword matcher cache BADWORD_RE_CACHE, the badword       *)
(* collection, and the handlers guard, bad_add, bad_del, bad_list,        *)
(* bad_clear and start_cmd.                                                *)
(*                                                                         *)
(* Strings are sequences of one-character strings, so that strip, lower,  *)
(* re.sub and the three regular expressions are computed character by     *)
(* character.                                                              *)
(*                                                                         *)
(* Spec, SpecConfig, SpecTracker, SpecKeys and SpecFaults run one handler  *)
(* at a time, as the application built in main() does; SpecAsync lets the  *)
(* handlers interleave at their awaits; SpecNormalize applies              *)
(* normalize_text to every string up to a length.                          *)
(***************************************************************************)
EXTENDS Integers, Sequences, FiniteSets, Bags, TLC

VARIABLES
    SEEN,              \* Dict[(chat, user, norm)] -> SeenMsg       (bot.py:53)
    BADWORD_RE_CACHE,  \* Dict[chat] -> Optional[re.Pattern]        (bot.py:69)
    col,               \* the badwords collection: a bag of documents (bot.py:67)
    clock,             \* the last value time.time() returned
    steps,             \* number of handler invocations so far
    last,              \* what the last handler invocation was given and did
    obs,               \* per key, the observations made at the tracker stage
    solo,              \* per key, the table of a run that sees only that key
    tasks,             \* the handler coroutines in flight, each at an await
    norm               \* a string and the results of normalize_text on it

vars == <<SEEN, BADWORD_RE_CACHE, col, clock, steps, last, obs, solo, tasks, norm>>

-----------------------------------------------------------------------------
(* Configuration read from the environment at import time.                 *)

SPAM_WINDOW == 30
SPAM_REPEAT == 2
SUDO_IDS == {7}

-----------------------------------------------------------------------------
(* Characters.                                                             *)

LowerLetters ==
    {"a", "b", "c", "d", "e", "g", "h", "i", "l", "m", "o", "p", "r", "s", "t", "w",
     "x", "y"}
UpperLetters == {"A", "B", "D", "H", "I", "S", "T", "Y"}
Digits == {"0", "1"}

\* str.lower() on one character
lower_char(c) ==
    CASE c = "A" -> "a"
      [] c = "B" -> "b"
      [] c = "D" -> "d"
      [] c = "H" -> "h"
      [] c = "I" -> "i"
      [] c = "S" -> "s"
      [] c = "T" -> "t"
      [] c = "Y" -> "y"
      [] OTHER -> c

\* \s of the re module, and the characters str.strip() removes
IsSpace(c) == c \in {" ", "\t", "\n", "\r"}

\* \w of the re module
IsWord(c) == c \in LowerLetters \cup UpperLetters \cup Digits \cup {"_"}

\* [a-z] under (?i)
IsAlpha(c) == c \in LowerLetters \cup UpperLetters

\* [a-z0-9-] under (?i)
IsLabelChar(c) == IsAlpha(c) \/ c \in Digits \/ c = "-"

\* is the character at position p of s a word character (FALSE outside s)
WordAt(s, p) == p >= 1 /\ p <= Len(s) /\ IsWord(s[p])

\* \b between positions p-1 and p of s
Boundary(s, p) == WordAt(s, p - 1) # WordAt(s, p)

lower(s) == [i \in 1..Len(s) |-> lower_char(s[i])]

RECURSIVE lstrip(_)
lstrip(s) == IF s # <<>> /\ IsSpace(Head(s)) THEN lstrip(Tail(s)) ELSE s

RECURSIVE rstrip(_)
rstrip(s) ==
    IF s # <<>> /\ IsSpace(s[Len(s)]) THEN rstrip(SubSeq(s, 1, Len(s) - 1)) ELSE s

strip(s) == rstrip(lstrip(s))

\* a substitution of every whitespace character by itself, not of every run
sub_each_space(s) == [i \in 1..Len(s) |-> IF IsSpace(s[i]) THEN " " ELSE s[i]]

\* re.sub(r"\s+", " ", s)
RECURSIVE sub_spaces(_)
sub_spaces(s) ==
    IF s = <<>> THEN <<>>
    ELSE IF IsSpace(Head(s)) THEN <<" ">> \o sub_spaces(lstrip(s))
    ELSE <<Head(s)>> \o sub_spaces(Tail(s))

normalize_text(s) == sub_spaces(lower(strip(s)))

\* " ".join(args)
RECURSIVE join(_)
join(args) ==
    IF args = <<>> THEN <<>>
    ELSE IF Len(args) = 1 THEN args[1]
    ELSE args[1] \o <<" ">> \o join(Tail(args))

-----------------------------------------------------------------------------
(* AT_RE and LINK_RE.                                                      *)

\* number of word characters of s starting at position p
RECURSIVE WordRun(_, _)
WordRun(s, p) == IF WordAt(s, p) THEN 1 + WordRun(s, p + 1) ELSE 0

\* AT_RE.search(text): (?<!\w)@\w{2,32}\b
AT_RE_search(text) ==
    \E i \in 1..Len(text) :
        /\ text[i] = "@"
        /\ ~WordAt(text, i - 1)
        /\ WordRun(text, i + 1) >= 2
        /\ WordRun(text, i + 1) <= 32

NoSpace(x) == \A i \in 1..Len(x) : ~IsSpace(x[i])

StartsWith(x, p) == Len(x) >= Len(p) /\ SubSeq(x, 1, Len(p)) = p

\* x is p followed by \S+
PrefixThenNonSpace(x, p) == StartsWith(x, p) /\ Len(x) > Len(p) /\ NoSpace(x)

\* x[1..d] matches (?:[a-z0-9-]+\.)+
Labels(x, d) ==
    /\ d >= 2
    /\ x[d] = "."
    /\ x[1] # "."
    /\ \A i \in 1..d : IsLabelChar(x[i]) \/ x[i] = "."
    /\ \A i \in 1..(d - 1) : ~(x[i] = "." /\ x[i + 1] = ".")

\* x matches (?:[a-z0-9-]+\.)+[a-z]{2,}(?:/\S*)?
BareDomain(x) ==
    \E d \in 1..Len(x) : \E e \in (d + 2)..Len(x) :
        /\ Labels(x, d)
        /\ \A i \in (d + 1)..e : IsAlpha(x[i])
        /\ \/ e = Len(x)
           \/ x[e + 1] = "/" /\ NoSpace(SubSeq(x, e + 2, Len(x)))

\* x matches one of the five alternatives of LINK_RE (x already lower-cased)
LinkAlternative(x) ==
    \/ PrefixThenNonSpace(x, <<"h", "t", "t", "p", ":", "/", "/">>)
    \/ PrefixThenNonSpace(x, <<"h", "t", "t", "p", "s", ":", "/", "/">>)
    \/ PrefixThenNonSpace(x, <<"w", "w", "w", ".">>)
    \/ PrefixThenNonSpace(x, <<"t", ".", "m", "e", "/">>)
    \/ PrefixThenNonSpace(x,
           <<"t", "e", "l", "e", "g", "r", "a", "m", ".", "m", "e", "/">>)
    \/ BareDomain(x)

\* LINK_RE.search(text): (?i)\b(...)\b
LINK_RE_search(text) ==
    \E i \in 1..Len(text) : \E j \in i..Len(text) :
        /\ Boundary(text, i)
        /\ Boundary(text, j + 1)
        /\ LinkAlternative(lower(SubSeq(text, i, j)))

-----------------------------------------------------------------------------
(* The repeat-spam table.                                                  *)

\* SeenMsg(last_ts, count)
SeenMsg(ts, n) == [last_ts |-> ts, count |-> n]

\* prune_old that empties the table as soon as one entry is stale
prune_old_all(seen, now) ==
    IF \E k \in DOMAIN seen : now - seen[k].last_ts > SPAM_WINDOW
    THEN [k \in {} |-> 0]
    ELSE seen

\* prune_old that removes nothing
prune_old_none(seen, now) == seen

\* prune_old(now), as a function of the table
prune_old(seen, now) ==
    [k \in {k \in DOMAIN seen : ~(now - seen[k].last_ts > SPAM_WINDOW)} |-> seen[k]]

\* SEEN[key] = value
Put(seen, key, value) ==
    [k \in DOMAIN seen \cup {key} |-> IF k = key THEN value ELSE seen[k]]

\* the tracker with `<` for `<=` in the window test
observe_strict_window(seen, key, now) ==
    IF key \notin DOMAIN seen
    THEN [seen |-> Put(seen, key, SeenMsg(now, 1)), verdict |-> "allow",
          branch |-> "insert"]
    ELSE IF now - seen[key].last_ts < SPAM_WINDOW
    THEN [seen |-> Put(seen, key, SeenMsg(now, seen[key].count + 1)),
          verdict |-> IF seen[key].count + 1 >= SPAM_REPEAT
                      THEN "flag" ELSE "allow",
          branch |-> "update"]
    ELSE [seen |-> Put(seen, key, SeenMsg(now, 1)), verdict |-> "allow",
          branch |-> "reset"]

\* the tracker with `>` for `>=` in the threshold test
observe_strict_threshold(seen, key, now) ==
    IF key \notin DOMAIN seen
    THEN [seen |-> Put(seen, key, SeenMsg(now, 1)), verdict |-> "allow",
          branch |-> "insert"]
    ELSE IF now - seen[key].last_ts <= SPAM_WINDOW
    THEN [seen |-> Put(seen, key, SeenMsg(now, seen[key].count + 1)),
          verdict |-> IF seen[key].count + 1 > SPAM_REPEAT
                      THEN "flag" ELSE "allow",
          branch |-> "update"]
    ELSE [seen |-> Put(seen, key, SeenMsg(now, 1)), verdict |-> "allow",
          branch |-> "reset"]

\* the tracker that inserts a fresh entry whatever the table holds
observe_insert_only(seen, key, now) ==
    [seen |-> Put(seen, key, SeenMsg(now, 1)), verdict |-> "allow",
     branch |-> "insert"]

\* guard, lines 190-199, on a table that was already pruned: the table it
\* leaves, whether it goes on to maybe_delete, and the branch it took
\* (line 192, lines 194-197, or line 199)
observe(seen, key, now) ==
    IF key \notin DOMAIN seen
    THEN [seen |-> Put(seen, key, SeenMsg(now, 1)), verdict |-> "allow",
          branch |-> "insert"]
    ELSE IF now - seen[key].last_ts <= SPAM_WINDOW
    THEN [seen |-> Put(seen, key, SeenMsg(now, seen[key].count + 1)),
          verdict |-> IF seen[key].count + 1 >= SPAM_REPEAT
                      THEN "flag" ELSE "allow",
          branch |-> "update"]
    ELSE [seen |-> Put(seen, key, SeenMsg(now, 1)), verdict |-> "allow",
          branch |-> "reset"]

-----------------------------------------------------------------------------
(* The badword collection and the matcher cache.                           *)

Doc(chat_id, word) == [chat_id |-> chat_id, word |-> word]

\* [d["word"] async for d in col.find({"chat_id": chat_id})]: the words of
\* the chat's documents, one per document (a bag: the order is not used)
find(c, chat_id) ==
    LET ws == {d.word : d \in {d \in BagToSet(c) : d.chat_id = chat_id}}
    IN  [w \in ws |-> CopiesIn(Doc(chat_id, w), c)]

None == [kind |-> "None", alts |-> {}]

\* build_re(words): None for no words, else the pattern
\* (?i)(?<!\w)(w1|w2|...)(?!\w) over set(words); the order of the
\* alternatives (longest first) does not change what search() finds
build_re(words) ==
    IF words = EmptyBag THEN None
    ELSE [kind |-> "Pattern", alts |-> BagToSet(words)]

\* pattern.search(text) for a pattern of build_re
search(pattern, text) ==
    \E w \in pattern.alts : \E i \in 1..Len(text) :
        /\ i + Len(w) - 1 <= Len(text)
        /\ lower(SubSeq(text, i, i + Len(w) - 1)) = lower(w)
        /\ ~WordAt(text, i - 1)
        /\ ~WordAt(text, i + Len(w))

\* refresh_cache that keeps an entry the cache already holds
refresh_cache_keep(cache, c, chat_id) ==
    [k \in DOMAIN cache \cup {chat_id} |->
        IF k \in DOMAIN cache THEN cache[k] ELSE build_re(find(c, chat_id))]

\* refresh_cache, line 79: BADWORD_RE_CACHE[chat_id] = build_re(words)
assign_cache(cache, chat_id, words) ==
    [k \in DOMAIN cache \cup {chat_id} |->
        IF k = chat_id THEN build_re(words) ELSE cache[k]]

\* refresh_cache(chat_id), as a function of the cache and the collection,
\* when nothing runs between its read of the store and its assignment
refresh_cache(cache, c, chat_id) == assign_cache(cache, chat_id, find(c, chat_id))

\* a test of the cached value in place of the test of the key
needs_load_falsy(cache, chat_id) ==
    chat_id \notin DOMAIN cache \/ cache[chat_id] = None

\* get_badword_re, line 82: chat_id not in BADWORD_RE_CACHE
needs_load(cache, chat_id) == chat_id \notin DOMAIN cache

\* get_badword_re(chat_id): the cache it leaves; the value it returns is
\* the entry of chat_id in that cache
get_badword_re(cache, c, chat_id) ==
    IF needs_load(cache, chat_id) THEN refresh_cache(cache, c, chat_id) ELSE cache

\* an insert_one in place of the upsert
insert_one(c, chat_id, word) == c (+) SetToBag({Doc(chat_id, word)})

\* col.update_one({chat_id, word}, {$setOnInsert: ...}, upsert=True)
update_one_upsert(c, chat_id, word) ==
    IF BagIn(Doc(chat_id, word), c) THEN c
    ELSE c (+) SetToBag({Doc(chat_id, word)})

\* col.delete_one({chat_id, word})
delete_one(c, chat_id, word) ==
    IF BagIn(Doc(chat_id, word), c) THEN c (-) SetToBag({Doc(chat_id, word)})
    ELSE c

\* col.delete_many({chat_id})
delete_many(c, chat_id) ==
    LET keep == {d \in BagToSet(c) : d.chat_id # chat_id}
    IN  [d \in keep |-> c[d]]

\* a pop that removes nothing
pop_nothing(cache, chat_id) == cache

\* BADWORD_RE_CACHE.pop(chat_id, None)
pop(cache, chat_id) == [k \in DOMAIN cache \ {chat_id} |-> cache[k]]

-----------------------------------------------------------------------------
(* Updates. An update is the message a handler is given: the chat, the     *)
(* sender (NoUser when msg.from_user is None), the text ("" and None are   *)
(* both <<>>: guard tests `not msg.text`) and, for a command, context.args.*)

NoUser == 0

Update(chat_id, chat_type, from_user, text, args) ==
    [chat_id |-> chat_id, chat_type |-> chat_type, from_user |-> from_user,
     text |-> text, args |-> args]

GROUPS == {"group", "supergroup"}

\* what awaiting context.bot.get_chat_member can give: a status, or an error
MemberOutcomes == {"administrator", "creator", "member", "error"}

\* is_admin_or_sudo that answers True when get_chat_member raises
is_admin_or_sudo_fail_open(u, member) ==
    IF u.from_user = NoUser THEN FALSE
    ELSE IF u.from_user \in SUDO_IDS THEN TRUE
    ELSE IF u.chat_type \notin GROUPS THEN FALSE
    ELSE member \in {"administrator", "creator", "error"}

\* is_admin_or_sudo(update, context); member is the outcome of get_chat_member
is_admin_or_sudo(u, member) ==
    IF u.from_user = NoUser THEN FALSE
    ELSE IF u.from_user \in SUDO_IDS THEN TRUE
    ELSE IF u.chat_type \notin GROUPS THEN FALSE
    ELSE IF member = "error" THEN FALSE
    ELSE member \in {"administrator", "creator"}

\* guard, lines 187-188: the key a message is tracked under
KeyOf(u) == <<u.chat_id, u.from_user, normalize_text(u.text)>>

\* bad_add and bad_del, lines 122 and 136: the word a command names
WordOf(u) == normalize_text(join(u.args))

\* does is_admin_or_sudo get as far as get_chat_member
asks_member(u) ==
    u.from_user # NoUser /\ u.from_user \notin SUDO_IDS /\ u.chat_type \in GROUPS

-----------------------------------------------------------------------------
(* The texts and badwords of the model.                                    *)

T_hi == <<"h", "i">>
T_Hi == <<" ", "H", "I", "\t">>
T_yo == <<"y", "o">>
T_two == <<"h", "i", " ", "\n", "Y", "o">>
T_mention == <<"@", "a", "b">>
T_email == <<"x", "@", "a", "b">>
T_mention_link == <<"@", "a", "b", " ", "t", ".", "m", "e", "/", "x">>
T_link == <<"a", ".", "b", "c">>
T_link_bad == <<"B", "A", "D", " ", "a", ".", "b", "c">>
T_bad == <<"B", "a", "d">>
T_badx == <<"b", "a", "d", "x">>
T_a_b == <<"a", " ", "b">>
T_blank == <<" ", "\t">>
T_start == <<"S", "t", "a", "r", "t", " ">>

W_bad == <<"b", "a", "d">>
W_Bad == <<"B", "A", "D">>
W_a == <<"a">>
W_b == <<"b">>

Texts ==
    {T_hi, T_Hi, T_yo, T_two, T_mention, T_email, T_mention_link, T_link,
     T_link_bad, T_bad, T_badx, T_a_b, T_blank, T_start}

-----------------------------------------------------------------------------
(* guard.                                                                  *)

\* the stateless checks without the link check
first_checks_no_link(text) ==
    IF AT_RE_search(text) THEN "mention" ELSE "pass"

\* guard, lines 174-178: the two stateless checks, in order
first_checks(text) ==
    IF AT_RE_search(text) THEN "mention"
    ELSE IF LINK_RE_search(text) THEN "link"
    ELSE "pass"

\* first_checks over the texts of the model, evaluated once
first_checks_of == [t \in Texts |-> first_checks(t)]

\* guard, line 181: bw and bw.search(text)
badword_hit(bw, text) == bw # None /\ search(bw, text)

\* a maybe_delete that lets the error of the delete call through
maybe_delete_raising(deletion) ==
    [calls |-> 1, raised |-> deletion = "error"]

\* maybe_delete(update), lines 158-162: one call of update.message.delete()
\* whose outcome is deletion ("ok" or "error"); every Exception is swallowed
maybe_delete(deletion) ==
    [calls |-> 1, raised |-> FALSE]

\* guard that takes a message of any chat type
ignored_text_only(u) == u.text = <<>>

\* guard, lines 166-170: the updates guard returns on at once
ignored(u) == u.text = <<>> \/ u.chat_type \notin GROUPS

\* what guard leaves when it returns before any check
Quiet(seen, cache) ==
    [SEEN |-> seen, CACHE |-> cache, timed |-> FALSE, checks |-> <<>>,
     wants_delete |-> FALSE, verdict |-> "none", branch |-> "none",
     raised |-> FALSE, reads |-> 0]

\* guard, lines 181-199, once get_badword_re has returned: cache holds the
\* entry of the chat; reads is the number of store reads made so far
guard_tail(u, now, seen, cache, reads) ==
    IF badword_hit(cache[u.chat_id], u.text)
    THEN [Quiet(seen, cache) EXCEPT !.checks = <<"mention", "link", "badword">>,
                                    !.wants_delete = TRUE, !.reads = reads]
    ELSE
        LET pruned == prune_old(seen, now) IN
        IF u.from_user = NoUser
        THEN \* msg.from_user.id raises AttributeError (line 188)
             [Quiet(pruned, cache) EXCEPT !.timed = TRUE,
                                          !.checks = <<"mention", "link", "badword">>,
                                          !.raised = TRUE, !.reads = reads]
        ELSE
            LET key == <<u.chat_id, u.from_user, normalize_text(u.text)>>
                r == observe(pruned, key, now)
            IN  [SEEN |-> r.seen, CACHE |-> cache, timed |-> TRUE,
                 checks |-> <<"mention", "link", "badword", "tracker">>,
                 wants_delete |-> r.verdict = "flag",
                 verdict |-> r.verdict, branch |-> r.branch,
                 raised |-> FALSE, reads |-> reads]

\* guard, lines 164-182 and the tail, up to the call of maybe_delete: store
\* is the outcome of the col.find a cache miss makes ("ok" or "error"; an
\* error leaves refresh_cache before it assigns and leaves guard)
guard_decide(u, now, seen, cache, c, store) ==
    IF ignored(u) THEN Quiet(seen, cache)
    ELSE IF first_checks_of[u.text] = "mention"
    THEN [Quiet(seen, cache) EXCEPT !.checks = <<"mention">>,
                                    !.wants_delete = TRUE]
    ELSE IF first_checks_of[u.text] = "link"
    THEN [Quiet(seen, cache) EXCEPT !.checks = <<"mention", "link">>,
                                    !.wants_delete = TRUE]
    ELSE IF needs_load(cache, u.chat_id) /\ store = "error"
    THEN [Quiet(seen, cache) EXCEPT !.checks = <<"mention", "link">>,
                                    !.raised = TRUE, !.reads = 1]
    ELSE guard_tail(u, now, seen, get_badword_re(cache, c, u.chat_id),
                    IF needs_load(cache, u.chat_id) THEN 1 ELSE 0)

\* guard that prunes the table before its first check
guard_run_prune_first(u, now, seen, cache, c, store, deletion) ==
    LET d == guard_decide(u, now, prune_old(seen, now), cache, c, store)
        m == maybe_delete(deletion)
    IN  [SEEN |-> d.SEEN, CACHE |-> d.CACHE, timed |-> d.timed,
         checks |-> d.checks, deletes |-> IF d.wants_delete THEN m.calls ELSE 0,
         verdict |-> d.verdict, branch |-> d.branch,
         raised |-> d.raised \/ (d.wants_delete /\ m.raised),
         reads |-> d.reads,
         store |-> IF d.reads = 0 THEN "unread" ELSE store,
         deletion |-> IF d.wants_delete THEN deletion ELSE "none"]

\* guard(update, context) with time.time() = now, as a function of the
\* state it reads and of the outcomes of the store read and of the delete
\* call: the state it leaves, the checks it evaluated in order, the number
\* of calls of message.delete(), the tracker's verdict and branch, whether
\* it read the clock, the number of store reads, and whether it raised
guard_run(u, now, seen, cache, c, store, deletion) ==
    LET d == guard_decide(u, now, seen, cache, c, store)
        m == maybe_delete(deletion)
    IN  [SEEN |-> d.SEEN, CACHE |-> d.CACHE, timed |-> d.timed,
         checks |-> d.checks, deletes |-> IF d.wants_delete THEN m.calls ELSE 0,
         verdict |-> d.verdict, branch |-> d.branch,
         raised |-> d.raised \/ (d.wants_delete /\ m.raised),
         reads |-> d.reads,
         store |-> IF d.reads = 0 THEN "unread" ELSE store,
         deletion |-> IF d.wants_delete THEN deletion ELSE "none"]

\* what a handler invocation was given and did: the update, the outcome of
\* get_chat_member if it was asked, the checks guard evaluated, the calls of
\* maybe_delete, the tracker's verdict, whether the handler raised, the
\* reply, and the count the store reported (matched_count, deleted_count);
\* for guard also the tracker's branch, the number of store reads and the
\* outcomes of the store read and of the delete call, set by guard
Outcome(op, u, member, checks, deletes, verdict, raised, reply, count) ==
    [op |-> op, u |-> u, member |-> member, checks |-> checks,
     deletes |-> deletes, verdict |-> verdict, raised |-> raised,
     reply |-> reply, count |-> count,
     branch |-> "none", reads |-> 0, store |-> "unread", deletion |-> "none"]

EmptyTable == [k \in {} |-> 0]

\* the table of the run that sees only the observations of key
SoloTable(key) == IF key \in DOMAIN solo THEN solo[key] ELSE EmptyTable

\* the ghost update of one tracker observation: the history of the key
\* grows by the observation and by what the run that sees only this key
\* gives for it
record_observation(key, now, verdict, count) ==
    \E alone \in {observe(prune_old(SoloTable(key), now), key, now)} :
       /\ obs' = Put(obs, key,
            (IF key \in DOMAIN obs THEN obs[key] ELSE <<>>) \o
            <<[ts |-> now, verdict |-> verdict, count |-> count,
               alone_verdict |-> alone.verdict,
               alone_count |-> alone.seen[key].count]>>)
       /\ solo' = Put(solo, key, alone.seen)

\* the ghost record of one guard invocation
GuardOutcome(u, r) ==
    [Outcome("guard", u, "unasked", r.checks, r.deletes, r.verdict, r.raised,
             "none", 0)
     EXCEPT !.branch = r.branch, !.reads = r.reads, !.store = r.store,
            !.deletion = r.deletion]

guard(u, now, store, deletion) ==
    /\ now >= clock
    /\ \E r \in {guard_run(u, now, SEEN, BADWORD_RE_CACHE, col, store, deletion)} :
       /\ SEEN' = r.SEEN
       /\ BADWORD_RE_CACHE' = r.CACHE
       /\ clock' = IF r.timed THEN now ELSE clock
       /\ steps' = steps + 1
       /\ last' = GuardOutcome(u, r)
       /\ IF r.verdict # "none"
          THEN \E key \in {<<u.chat_id, u.from_user, normalize_text(u.text)>>} :
                  record_observation(key, now, r.verdict, r.SEEN[key].count)
          ELSE UNCHANGED <<obs, solo>>
    /\ UNCHANGED <<col, tasks, norm>>

-----------------------------------------------------------------------------
(* The commands.                                                           *)

start_cmd(u) ==
    /\ steps' = steps + 1
    /\ last' = Outcome("start_cmd", u, "unasked", <<>>, 0, "none", FALSE, "help", 0)
    /\ UNCHANGED <<SEEN, BADWORD_RE_CACHE, col, clock, obs, solo, tasks, norm>>

\* the created_at field of an inserted document is left out
bad_add(u, member) ==
    LET word == normalize_text(join(u.args))
        asked == IF asks_member(u) THEN member ELSE "unasked"
    IN
    /\ steps' = steps + 1
    /\ IF ~is_admin_or_sudo(u, member)
       THEN /\ last' = Outcome("bad_add", u, asked, <<>>, 0, "none", FALSE, "none", 0)
            /\ UNCHANGED <<col, BADWORD_RE_CACHE>>
       ELSE IF u.args = <<>>
       THEN /\ last' = Outcome("bad_add", u, asked, <<>>, 0, "none", FALSE, "format", 0)
            /\ UNCHANGED <<col, BADWORD_RE_CACHE>>
       ELSE /\ col' = update_one_upsert(col, u.chat_id, word)
            /\ BADWORD_RE_CACHE' = refresh_cache(BADWORD_RE_CACHE, col', u.chat_id)
            /\ last' = Outcome("bad_add", u, asked, <<>>, 0, "none", FALSE, "added",
                               CopiesIn(Doc(u.chat_id, word), col))
    /\ UNCHANGED <<SEEN, clock, obs, solo, tasks, norm>>

bad_del(u, member) ==
    LET word == normalize_text(join(u.args))
        asked == IF asks_member(u) THEN member ELSE "unasked"
    IN
    /\ steps' = steps + 1
    /\ IF ~is_admin_or_sudo(u, member)
       THEN /\ last' = Outcome("bad_del", u, asked, <<>>, 0, "none", FALSE, "none", 0)
            /\ UNCHANGED <<col, BADWORD_RE_CACHE>>
       ELSE /\ col' = delete_one(col, u.chat_id, word)
            /\ BADWORD_RE_CACHE' = refresh_cache(BADWORD_RE_CACHE, col', u.chat_id)
            /\ last' = Outcome("bad_del", u, asked, <<>>, 0, "none", FALSE,
                               IF BagIn(Doc(u.chat_id, word), col)
                               THEN "deleted" ELSE "absent",
                               IF BagIn(Doc(u.chat_id, word), col) THEN 1 ELSE 0)
    /\ UNCHANGED <<SEEN, clock, obs, solo, tasks, norm>>

bad_list(u) ==
    /\ steps' = steps + 1
    /\ last' = Outcome("bad_list", u, "unasked", <<>>, 0, "none", FALSE,
                       IF find(col, u.chat_id) = EmptyBag THEN "empty" ELSE "words",
                       0)
    /\ UNCHANGED <<SEEN, BADWORD_RE_CACHE, col, clock, obs, solo, tasks, norm>>

bad_clear(u, member) ==
    LET asked == IF asks_member(u) THEN member ELSE "unasked" IN
    /\ steps' = steps + 1
    /\ IF ~is_admin_or_sudo(u, member)
       THEN /\ last' = Outcome("bad_clear", u, asked, <<>>, 0, "none", FALSE, "none", 0)
            /\ UNCHANGED <<col, BADWORD_RE_CACHE>>
       ELSE /\ col' = delete_many(col, u.chat_id)
            /\ BADWORD_RE_CACHE' = pop(BADWORD_RE_CACHE, u.chat_id)
            /\ last' = Outcome("bad_clear", u, asked, <<>>, 0, "none", FALSE, "cleared",
                               BagCardinality(find(col, u.chat_id)))
    /\ UNCHANGED <<SEEN, clock, obs, solo, tasks, norm>>

-----------------------------------------------------------------------------
(* The inputs.                                                             *)

MaxOps == 3     \* handler invocations in a behaviour of Spec or SpecConfig
MaxObs == 5     \* guard invocations in a behaviour of SpecTracker
MaxKeyObs == 5  \* guard invocations in a behaviour of SpecKeys
MaxFaultOps == 4  \* handler invocations in a behaviour of SpecFaults
MaxTasks == 3   \* handler coroutines started in a behaviour of SpecAsync
MaxLen == 5     \* length of the strings normalize_text is applied to

\* the values time.time() takes
Times == {0, 10, 25, 40, 61, 70}
CoarseTimes == {0, 10, 61}
AsyncTimes == {0, 20, 61}
KeyTimes == {0, 25, 40, 61}

\* text messages: chat 1 is a supergroup, chat 2 a group, chat 3 private
Message(chat_id, from_user, text) ==
    Update(chat_id,
           CASE chat_id = 1 -> "supergroup" [] chat_id = 2 -> "group"
             [] OTHER -> "private",
           from_user, text, <<>>)

\* commands with their arguments
Command(chat_id, from_user, args) ==
    Update(chat_id,
           CASE chat_id = 1 -> "supergroup" [] chat_id = 2 -> "group"
             [] OTHER -> "private",
           from_user, <<>>, args)

GuardUpdates ==
    {Message(1, 9, t) : t \in {T_Hi, T_email, T_mention_link, T_link_bad,
                               T_bad, T_badx, T_a_b, T_blank, T_start, <<>>}}
    \cup {Message(1, NoUser, T_hi), Message(2, 9, T_bad), Message(3, 9, T_hi)}

CommandUpdates ==
    {Command(1, 7, <<W_Bad>>), Command(1, 8, <<W_bad>>), Command(1, 8, <<W_a, W_b>>),
     Command(1, 8, <<W_a>>), Command(1, 8, <<>>), Command(1, 9, <<W_bad>>),
     Command(1, NoUser, <<W_bad>>), Command(2, 8, <<W_bad>>),
     Command(3, 7, <<W_bad>>), Command(3, 9, <<W_bad>>)}

\* messages that reach the tracker: two keys of one sender, one of them
\* written in two ways
TrackerUpdates ==
    {Message(1, 9, T_hi), Message(1, 9, T_Hi), Message(1, 9, T_two)}

\* messages that reach the tracker: four keys that differ in the chat, in
\* the user or in the normalized text
KeyUpdates ==
    {Message(1, 9, T_hi), Message(1, 9, T_two), Message(1, 8, T_Hi),
     Message(2, 9, T_hi)}

\* the outcomes of get_chat_member that is_admin_or_sudo(u, .) can see
Members(u) == IF asks_member(u) THEN MemberOutcomes ELSE {"unasked"}

-----------------------------------------------------------------------------
(* The specifications.                                                     *)

Init ==
    /\ SEEN = EmptyTable
    /\ BADWORD_RE_CACHE = EmptyTable
    /\ col = EmptyBag
    /\ clock = 0
    /\ steps = 0
    /\ last = Outcome("init", Message(1, NoUser, <<>>), "unasked", <<>>, 0,
                      "none", FALSE, "none", 0)
    /\ obs = EmptyTable
    /\ solo = EmptyTable
    /\ tasks = EmptyBag
    /\ norm = <<>>

\* main(): the handlers the application dispatches to. In Spec: every kind
\* of text message, and the commands of the administrators of two chats
Guard ==
    /\ steps < MaxOps
    /\ \E u \in GuardUpdates, now \in CoarseTimes : guard(u, now, "ok", "ok")

Start ==
    /\ steps < MaxOps
    /\ start_cmd(Command(1, 9, <<>>))

BadAdd ==
    /\ steps < MaxOps
    /\ \E u \in {Command(1, 8, <<W_bad>>), Command(1, 8, <<W_a>>),
                 Command(2, 8, <<W_Bad>>)} :
           bad_add(u, "administrator")

BadDel ==
    /\ steps < MaxOps
    /\ bad_del(Command(1, 8, <<W_bad>>), "creator")

BadList ==
    /\ steps < MaxOps
    /\ bad_list(Command(1, 9, <<>>))

BadClear ==
    /\ steps < MaxOps
    /\ bad_clear(Command(1, 7, <<>>), "unasked")

Next == Guard \/ Start \/ BadAdd \/ BadDel \/ BadList \/ BadClear

Spec == Init /\ [][Next]_vars

\* In SpecConfig: every kind of command, and the text messages that read the
\* matcher of a chat
ConfigGuard ==
    /\ steps < MaxOps
    /\ \E u \in {Message(1, 9, T_bad), Message(1, 9, T_a_b), Message(2, 9, T_bad)} :
           guard(u, clock, "ok", "ok")

ConfigBadAdd ==
    /\ steps < MaxOps
    /\ \E u \in CommandUpdates : \E member \in Members(u) : bad_add(u, member)

ConfigBadDel ==
    /\ steps < MaxOps
    /\ \E u \in CommandUpdates : \E member \in Members(u) : bad_del(u, member)

ConfigBadList ==
    /\ steps < MaxOps
    /\ \E u \in {Command(1, 9, <<>>), Command(2, 9, <<>>)} : bad_list(u)

ConfigBadClear ==
    /\ steps < MaxOps
    /\ \E u \in CommandUpdates : \E member \in Members(u) : bad_clear(u, member)

NextConfig ==
    ConfigGuard \/ Start \/ ConfigBadAdd \/ ConfigBadDel \/ ConfigBadList
    \/ ConfigBadClear

SpecConfig == Init /\ [][NextConfig]_vars

\* In SpecTracker: the tracker alone, on text messages without mention, link
\* or badword
TrackerGuard ==
    /\ steps < MaxObs
    /\ \E u \in TrackerUpdates, now \in Times : guard(u, now, "ok", "ok")

NextTracker == TrackerGuard

SpecTracker == Init /\ [][NextTracker]_vars

\* In SpecKeys: the tracker alone, on the messages of several chats and
\* senders
KeysGuard ==
    /\ steps < MaxKeyObs
    /\ \E u \in KeyUpdates, now \in KeyTimes : guard(u, now, "ok", "ok")

NextKeys == KeysGuard

SpecKeys == Init /\ [][NextKeys]_vars

\* In SpecFaults: guard with a store read or a delete call that may fail,
\* on messages with and without a mention or a badword
FaultGuard ==
    /\ steps < MaxFaultOps
    /\ \E u \in {Message(1, 9, T_hi), Message(1, 9, T_bad), Message(1, 9, T_mention)},
          now \in CoarseTimes, store \in {"ok", "error"}, deletion \in {"ok", "error"} :
           guard(u, now, store, deletion)

FaultBadAdd ==
    /\ steps < MaxFaultOps
    /\ bad_add(Command(1, 7, <<W_bad>>), "unasked")

FaultBadClear ==
    /\ steps < MaxFaultOps
    /\ bad_clear(Command(1, 7, <<>>), "unasked")

NextFaults == FaultGuard \/ FaultBadAdd \/ FaultBadClear

SpecFaults == Init /\ [][NextFaults]_vars

-----------------------------------------------------------------------------
(* SpecAsync: the handlers as coroutines that interleave at their awaits.  *)
(* A coroutine runs without interruption from one await to the next; an    *)
(* await of a coroutine that returns without suspending (get_badword_re on *)
(* a cached chat, is_admin_or_sudo for a sender in SUDO_IDS) is no         *)
(* interruption. tasks is the bag of the coroutines suspended at an await: *)
(* pc names the call awaited, or its returned result not yet resumed on.   *)

Task(op, u, pc, words) == [op |-> op, u |-> u, pc |-> pc, words |-> words]

Job(op, u) == [op |-> op, u |-> u]

\* the updates dispatched in SpecAsync: two text messages of one sender in
\* one chat and the commands of a sender in SUDO_IDS on that chat
AsyncJobs ==
    {Job("guard", Message(1, 9, T_hi)), Job("guard", Message(1, 9, T_bad)),
     Job("bad_add", Command(1, 7, <<W_bad>>)),
     Job("bad_del", Command(1, 7, <<W_bad>>)),
     Job("bad_clear", Command(1, 7, <<>>))}

Suspend(rest, t) == rest (+) SetToBag({t})

Without(t) == tasks (-) SetToBag({t})

\* guard from line 181 to its next await or its end, on the cache that
\* holds the chat's entry: it goes on as the bag rest, with guard itself
\* suspended at message.delete() if it calls maybe_delete
guard_continue(u, now, cache, rest) ==
    /\ now >= clock
    /\ \E r \in {guard_tail(u, now, SEEN, cache, 0)} :
       /\ SEEN' = r.SEEN
       /\ BADWORD_RE_CACHE' = r.CACHE
       /\ clock' = IF r.timed THEN now ELSE clock
       /\ tasks' = IF r.wants_delete
                   THEN Suspend(rest, Task("guard", u, "delete", EmptyBag))
                   ELSE rest
       /\ IF r.verdict # "none"
          THEN record_observation(KeyOf(u), now, r.verdict, r.SEEN[KeyOf(u)].count)
          ELSE UNCHANGED <<obs, solo>>

\* a handler is entered and runs to its first await that suspends
AsyncStart ==
    /\ steps < MaxTasks
    /\ steps' = steps + 1
    /\ \E job \in AsyncJobs :
       LET u == job.u IN
       /\ job.op # "guard" => is_admin_or_sudo(u, "unasked") /\ ~asks_member(u)
       /\ CASE job.op = "guard" ->
                 IF ignored(u)
                 THEN UNCHANGED <<SEEN, BADWORD_RE_CACHE, clock, obs, solo, tasks>>
                 ELSE IF first_checks_of[u.text] # "pass"
                 THEN /\ tasks' = Suspend(tasks, Task("guard", u, "delete", EmptyBag))
                      /\ UNCHANGED <<SEEN, BADWORD_RE_CACHE, clock, obs, solo>>
                 ELSE IF needs_load(BADWORD_RE_CACHE, u.chat_id)
                 THEN /\ tasks' = Suspend(tasks, Task("guard", u, "find", EmptyBag))
                      /\ UNCHANGED <<SEEN, BADWORD_RE_CACHE, clock, obs, solo>>
                 ELSE \E now \in AsyncTimes :
                         guard_continue(u, now, BADWORD_RE_CACHE, tasks)
            [] job.op = "bad_add" ->
                 /\ tasks' = IF u.args = <<>> THEN tasks
                             ELSE Suspend(tasks, Task("bad_add", u, "update_one", EmptyBag))
                 /\ UNCHANGED <<SEEN, BADWORD_RE_CACHE, clock, obs, solo>>
            [] job.op = "bad_del" ->
                 /\ tasks' = Suspend(tasks, Task("bad_del", u, "delete_one", EmptyBag))
                 /\ UNCHANGED <<SEEN, BADWORD_RE_CACHE, clock, obs, solo>>
            [] job.op = "bad_clear" ->
                 /\ tasks' = Suspend(tasks, Task("bad_clear", u, "delete_many", EmptyBag))
                 /\ UNCHANGED <<SEEN, BADWORD_RE_CACHE, clock, obs, solo>>
    /\ UNCHANGED <<col, last, norm>>

\* the store serves the call a coroutine awaits. After update_one and
\* delete_one the coroutine calls refresh_cache at once (lines 128, 138),
\* touching nothing before its col.find, so its next await is that find
AsyncStore ==
    /\ \E t \in BagToSet(tasks) :
       /\ t.pc \in {"find", "update_one", "delete_one", "delete_many"}
       /\ CASE t.pc = "find" ->
                 /\ tasks' = Suspend(Without(t),
                        [t EXCEPT !.pc = "found", !.words = find(col, t.u.chat_id)])
                 /\ UNCHANGED col
            [] t.pc = "update_one" ->
                 /\ col' = update_one_upsert(col, t.u.chat_id, WordOf(t.u))
                 /\ tasks' = Suspend(Without(t), [t EXCEPT !.pc = "find"])
            [] t.pc = "delete_one" ->
                 /\ col' = delete_one(col, t.u.chat_id, WordOf(t.u))
                 /\ tasks' = Suspend(Without(t), [t EXCEPT !.pc = "find"])
            [] t.pc = "delete_many" ->
                 /\ col' = delete_many(col, t.u.chat_id)
                 /\ tasks' = Suspend(Without(t), [t EXCEPT !.pc = "cleared"])
    /\ UNCHANGED <<SEEN, BADWORD_RE_CACHE, clock, steps, last, obs, solo, norm>>

\* a coroutine resumes on the result of the call it awaited and runs to its
\* next await or to its end (the reply of a command changes no state)
AsyncResume ==
    /\ \E t \in BagToSet(tasks) :
       /\ t.pc \in {"found", "cleared", "delete"}
       /\ CASE t.op = "guard" /\ t.pc = "found" ->
                 \E now \in AsyncTimes :
                    guard_continue(t.u, now,
                        assign_cache(BADWORD_RE_CACHE, t.u.chat_id, t.words),
                        Without(t))
            [] t.op = "guard" /\ t.pc = "delete" ->
                 /\ tasks' = Without(t)
                 /\ UNCHANGED <<SEEN, BADWORD_RE_CACHE, clock, obs, solo>>
            [] t.op \in {"bad_add", "bad_del"} /\ t.pc = "found" ->
                 /\ BADWORD_RE_CACHE' =
                        assign_cache(BADWORD_RE_CACHE, t.u.chat_id, t.words)
                 /\ tasks' = Without(t)
                 /\ UNCHANGED <<SEEN, clock, obs, solo>>
            [] t.op = "bad_clear" /\ t.pc = "cleared" ->
                 /\ BADWORD_RE_CACHE' = pop(BADWORD_RE_CACHE, t.u.chat_id)
                 /\ tasks' = Without(t)
                 /\ UNCHANGED <<SEEN, clock, obs, solo>>
    /\ UNCHANGED <<col, steps, last, norm>>

NextAsync == AsyncStart \/ AsyncStore \/ AsyncResume

SpecAsync == Init /\ [][NextAsync]_vars

-----------------------------------------------------------------------------
(* SpecNormalize: normalize_text applied to a string and to its results.   *)

\* an upper-case letter, a lower-case letter and three whitespace characters
NormAlphabet == {"B", "a", " ", "\t", "\n"}

NormInputs == UNION {[1..n -> NormAlphabet] : n \in 0..MaxLen}

InitNormalize ==
    /\ SEEN = EmptyTable
    /\ BADWORD_RE_CACHE = EmptyTable
    /\ col = EmptyBag
    /\ clock = 0
    /\ steps = 0
    /\ last = Outcome("init", Message(1, NoUser, <<>>), "unasked", <<>>, 0,
                      "none", FALSE, "none", 0)
    /\ obs = EmptyTable
    /\ solo = EmptyTable
    /\ tasks = EmptyBag
    /\ norm \in {<<x>> : x \in NormInputs}

\* normalize_text is applied to the last string of norm
Normalize ==
    /\ Len(norm) < 3
    /\ norm' = Append(norm, normalize_text(norm[Len(norm)]))
    /\ UNCHANGED <<SEEN, BADWORD_RE_CACHE, col, clock, steps, last, obs, solo, tasks>>

NextNormalize == Normalize

SpecNormalize == InitNormalize /\ [][NextNormalize]_vars

-----------------------------------------------------------------------------
(* Properties of guard's decision (under Spec).                            *)

\* the last handler invocation was guard on a text message of a group
GuardedGroupText ==
    last.op = "guard" /\ last.u.text # <<>> /\ last.u.chat_type \in GROUPS

\* the matcher of the chat's stored words matches the text
StoredWordMatches(chat_id, text) ==
    \E w \in DOMAIN find(col, chat_id) :
        search([kind |-> "Pattern", alts |-> {w}], text)

\* C1: for a text message of a group, guard calls maybe_delete if and only
\* if the text has a mention, or a link, or matches the chat's badword
\* matcher, or (none of the three) the tracker flags it; the checks run in
\* the order mention, link, badword, tracker and stop at the first that
\* matches; maybe_delete is called at most once.
GuardDeletesIffMatch ==
    GuardedGroupText =>
        LET text == last.u.text
            m == AT_RE_search(text)
            l == LINK_RE_search(text)
            b == StoredWordMatches(last.u.chat_id, text)
        IN  /\ last.deletes <= 1
            /\ last.deletes = 1 <=>
                  (m \/ l \/ b \/ (~m /\ ~l /\ ~b /\ last.verdict = "flag"))
            /\ (m \/ l \/ b) => last.verdict = "none"
            /\ last.checks =
                  IF m THEN <<"mention">>
                  ELSE IF l THEN <<"mention", "link">>
                  ELSE IF b \/ last.raised THEN <<"mention", "link", "badword">>
                  ELSE <<"mention", "link", "badword", "tracker">>

\* C1 witness: a message stopped at the badword check, after mention and link
\* were evaluated and did not match
GuardDeletedBadword ==
    /\ GuardedGroupText
    /\ last.checks = <<"mention", "link", "badword">>
    /\ last.deletes = 1

-----------------------------------------------------------------------------
(* Properties of the tracker (under SpecTracker; C4 under SpecKeys).       *)

\* the gap between observation i of a history and the one before it
Gap(h, i) == h[i].ts - h[i - 1].ts

\* the length of the longest suffix of a history in which every successive
\* gap is at most SPAM_WINDOW
SuffixRun(h) ==
    LET n == Len(h)
        within(m) == \A i \in (n - m + 2)..n : Gap(h, i) <= SPAM_WINDOW
    IN  CHOOSE m \in 1..n : within(m) /\ \A m2 \in 1..n : within(m2) => m2 <= m

\* C2: for every key present in SEEN, count is the length of the longest
\* suffix of the key's observations whose successive gaps are all at most
\* SPAM_WINDOW and last_ts is the time of its latest observation; an
\* observation whose gap from the previous one exceeds SPAM_WINDOW leaves
\* count = 1.
CountIsRunLength ==
    /\ \A k \in DOMAIN SEEN :
          /\ k \in DOMAIN obs
          /\ SEEN[k].count = SuffixRun(obs[k])
          /\ SEEN[k].last_ts = obs[k][Len(obs[k])].ts
    /\ \A k \in DOMAIN obs : \A i \in 2..Len(obs[k]) :
          Gap(obs[k], i) > SPAM_WINDOW => obs[k][i].count = 1

\* C2 witness: a key whose run was broken by a gap above the window and
\* then grew again
RunRestarted ==
    \E k \in DOMAIN SEEN :
        /\ Len(obs[k]) >= 4
        /\ \E i \in 2..Len(obs[k]) : Gap(obs[k], i) > SPAM_WINDOW
        /\ \E i \in 2..Len(obs[k]) : Gap(obs[k], i) = SPAM_WINDOW
        /\ SEEN[k].count = 2

\* C3: an observation is flagged exactly when the key was observed before
\* with a gap of at most SPAM_WINDOW and the incremented count reaches
\* SPAM_REPEAT, so the first observation of a run is allowed; observations
\* at 0, 10, 25, 61, 70 give allow, flag, flag, allow, flag; with the
\* threshold 2 every observation within the window of the previous one is
\* flagged.
FlagIffRepeatInWindow ==
    \A k \in DOMAIN obs :
        LET h == obs[k] IN
        /\ \A i \in 1..Len(h) :
              /\ h[i].verdict = "flag" <=>
                    (i > 1 /\ Gap(h, i) <= SPAM_WINDOW /\ h[i].count >= SPAM_REPEAT)
              /\ (i > 1 /\ Gap(h, i) <= SPAM_WINDOW) => h[i].verdict = "flag"
        /\ [i \in 1..Len(h) |-> h[i].ts] = <<0, 10, 25, 61, 70>> =>
              [i \in 1..Len(h) |-> h[i].verdict] =
                  <<"allow", "flag", "flag", "allow", "flag">>

\* C3 witness: one key observed at 0, 10, 25, 61 and 70
FiveObservations ==
    \E k \in DOMAIN obs :
        [i \in 1..Len(obs[k]) |-> obs[k][i].ts] = <<0, 10, 25, 61, 70>>

\* C4: the verdict and the count of every observation of a key are those of
\* the run in which the observations of all other keys did not happen.
KeysIndependent ==
    \A k \in DOMAIN obs : \A i \in 1..Len(obs[k]) :
        /\ obs[k][i].verdict = obs[k][i].alone_verdict
        /\ obs[k][i].count = obs[k][i].alone_count

\* C4 witness: four keys, three of which differ from the first in the chat
\* only, in the user only and in the text only; one was pruned by another
\* key's observation, after which the first was flagged
PrunedByAnotherKey ==
    \E k1, k2, k3, k4 \in DOMAIN obs :
        /\ k2[1] # k1[1] /\ k2[2] = k1[2] /\ k2[3] = k1[3]
        /\ k3[1] = k1[1] /\ k3[2] # k1[2] /\ k3[3] = k1[3]
        /\ k4[1] = k1[1] /\ k4[2] = k1[2] /\ k4[3] # k1[3]
        /\ k2 \notin DOMAIN SEEN
        /\ obs[k1][Len(obs[k1])].verdict = "flag"
        /\ obs[k1][Len(obs[k1])].ts > obs[k2][Len(obs[k2])].ts + SPAM_WINDOW

\* C18: after a tracker observation at time now every entry of SEEN, of
\* whatever key, has now - last_ts <= SPAM_WINDOW, and the observation did
\* not take the branch that resets an entry that is present but stale.
NoStaleEntryAfterObservation ==
    (last.op = "guard" /\ last.verdict # "none") =>
        /\ \A k \in DOMAIN SEEN : clock - SEEN[k].last_ts <= SPAM_WINDOW
        /\ last.branch \in {"insert", "update"}

\* C18 witness: an observation that pruned the entry of one key, kept the
\* older entry of another and updated the entry of its own key
PrunedKeptUpdated ==
    /\ last.op = "guard"
    /\ last.branch = "update"
    /\ \E k \in DOMAIN obs : k \notin DOMAIN SEEN
    /\ \E k \in DOMAIN SEEN : SEEN[k].last_ts < clock

-----------------------------------------------------------------------------
(* Properties of the badword commands (under SpecConfig).                  *)

ADMIN_STATUSES == {"administrator", "creator"}

\* the sender is not in SUDO_IDS, and the chat is no group or the lookup
\* gave no administrator status (a status of a plain member, an error, or
\* no lookup at all)
NonPrivileged(u, member) ==
    /\ u.from_user \notin SUDO_IDS
    /\ u.chat_type \notin GROUPS \/ member \notin ADMIN_STATUSES

Privileged(u, member) ==
    \/ u.from_user \in SUDO_IDS
    \/ u.chat_type \in GROUPS /\ member \in ADMIN_STATUSES

\* C5: bad_add, bad_del and bad_clear invoked by a non-privileged sender
\* leave the collection and BADWORD_RE_CACHE unchanged, reply nothing and do
\* not raise; bad_add invoked by a privileged sender with a word leaves the
\* normalized word in the collection for that chat.
OnlyPrivilegedConfigure ==
    [][(steps' = steps + 1 /\ last'.op \in {"bad_add", "bad_del", "bad_clear"}) =>
          /\ NonPrivileged(last'.u, last'.member) =>
                /\ col' = col
                /\ BADWORD_RE_CACHE' = BADWORD_RE_CACHE
                /\ ~last'.raised
                /\ last'.reply = "none"
          /\ (last'.op = "bad_add" /\ Privileged(last'.u, last'.member)
                /\ last'.u.args # <<>>) =>
                BagIn(Doc(last'.u.chat_id, WordOf(last'.u)), col')
      ]_vars

\* C5 witness: bad_add by a sender whose membership lookup failed, on a
\* collection that holds words
RefusedAfterLookupError ==
    /\ last.op = "bad_add"
    /\ last.member = "error"
    /\ last.reply = "none"
    /\ col # EmptyBag

\* the value get_badword_re(chat_id) returns in this state
Matcher(chat_id) ==
    get_badword_re(BADWORD_RE_CACHE, col, chat_id)[chat_id]

MatcherMatches(chat_id, text) ==
    Matcher(chat_id) # None /\ search(Matcher(chat_id), text)

AfterBadAdd == last.op = "bad_add" /\ last.reply = "added"
AfterBadDel == last.op = "bad_del" /\ last.reply = "deleted"
AfterBadClear == last.op = "bad_clear" /\ last.reply = "cleared"

\* C6 as stated: after a privileged bad_add(chat, w) the matcher of the chat
\* matches w; after a bad_del(chat, w) that removed w the matcher no longer
\* matches w; after bad_clear(chat) the collection holds no word of the chat
\* and the matcher is None.
RoundTripAsStated ==
    /\ AfterBadAdd => MatcherMatches(last.u.chat_id, WordOf(last.u))
    /\ AfterBadDel => ~MatcherMatches(last.u.chat_id, WordOf(last.u))
    /\ AfterBadClear =>
          /\ find(col, last.u.chat_id) = EmptyBag
          /\ Matcher(last.u.chat_id) = None

\* another word the chat still holds occurs in w as a whole word
OtherWordInside(chat_id, w) ==
    \E w2 \in DOMAIN find(col, chat_id) :
        w2 # w /\ search([kind |-> "Pattern", alts |-> {w2}], w)

\* C6, amended: as stated, but after bad_del(chat, w) the matcher no longer
\* has w among its words, and it matches w only if another word the chat
\* still holds occurs in w as a whole word.
RoundTrip ==
    /\ AfterBadAdd => MatcherMatches(last.u.chat_id, WordOf(last.u))
    /\ AfterBadDel =>
          /\ WordOf(last.u) \notin Matcher(last.u.chat_id).alts
          /\ MatcherMatches(last.u.chat_id, WordOf(last.u)) <=>
                OtherWordInside(last.u.chat_id, WordOf(last.u))
    /\ AfterBadClear =>
          /\ find(col, last.u.chat_id) = EmptyBag
          /\ Matcher(last.u.chat_id) = None

\* C6 witness: a word was removed and the matcher, rebuilt in the cache,
\* still matches it through a shorter word of the chat
RemovedWordStillMatched ==
    /\ AfterBadDel
    /\ last.u.chat_id \in DOMAIN BADWORD_RE_CACHE
    /\ MatcherMatches(last.u.chat_id, WordOf(last.u))

\* the step is an invocation of guard
GuardStep == steps' = steps + 1 /\ last'.op = "guard"

\* C7: every entry of BADWORD_RE_CACHE is the matcher built from the words
\* the collection holds for that chat (None when it holds none).
CacheMatchesStore ==
    \A chat_id \in DOMAIN BADWORD_RE_CACHE :
        BADWORD_RE_CACHE[chat_id] = build_re(find(col, chat_id))

\* C7 witness: a command changed the words of a chat whose matcher is cached
\* while another word remains
CacheRebuiltAfterChange ==
    /\ AfterBadDel
    /\ last.u.chat_id \in DOMAIN BADWORD_RE_CACHE
    /\ BADWORD_RE_CACHE[last.u.chat_id] # None

\* C8: after a privileged bad_add the collection holds exactly one document
\* for that chat and normalized word, and the number of documents of every
\* other chat and word is unchanged.
InsertIdempotent ==
    [][(steps' = steps + 1 /\ last'.op = "bad_add" /\ last'.reply = "added") =>
          LET d == Doc(last'.u.chat_id, WordOf(last'.u)) IN
          /\ CopiesIn(d, col') = 1
          /\ \A e \in (BagToSet(col) \cup BagToSet(col')) \ {d} :
                CopiesIn(e, col') = CopiesIn(e, col)
      ]_vars

\* C8 witness: bad_add of a word the chat already held, written in another
\* case, with words of another chat in the collection
AddedAgain ==
    /\ AfterBadAdd
    /\ last.count = 1
    /\ last.u.args = <<W_Bad>>
    /\ \E e \in BagToSet(col) : e.chat_id # last.u.chat_id

-----------------------------------------------------------------------------
(* Statements of the specification the code does not meet (under Spec).    *)

\* C9: no key of SEEN has the empty string as its normalized text, and a
\* message whose normalized text is empty is never deleted as repeat spam.
EmptyTextNeverTracked ==
    /\ \A k \in DOMAIN SEEN : k[3] # <<>>
    /\ (GuardedGroupText /\ normalize_text(last.u.text) = <<>>) =>
          last.verdict # "flag"

\* C10: a group message whose trimmed, case-folded text is "start" is
\* answered with the help text, is never deleted and is never recorded in
\* SEEN.
BareStartIsHelp ==
    /\ \A k \in DOMAIN SEEN : k[3] # <<"s", "t", "a", "r", "t">>
    /\ (GuardedGroupText /\ lower(strip(last.u.text)) = <<"s", "t", "a", "r", "t">>) =>
          /\ last.deletes = 0
          /\ last.reply = "help"

-----------------------------------------------------------------------------
(* Properties of the cache entry of a chat (under SpecConfig).             *)

\* the step is a privileged bad_add, bad_del or bad_clear on chat_id
ConfiguredStep(chat_id) ==
    /\ steps' = steps + 1
    /\ last'.op \in {"bad_add", "bad_del", "bad_clear"}
    /\ last'.u.chat_id = chat_id
    /\ Privileged(last'.u, last'.member)

\* C17: guard reads the store exactly when the chat has no entry in
\* BADWORD_RE_CACHE when it calls get_badword_re; after the call the chat
\* has an entry, which is None when the collection holds no word of the
\* chat, and the next call finds that entry without a read; an entry is
\* removed or changed only by a privileged bad_add, bad_del or bad_clear on
\* its chat.
LoadedEmptyIsCached ==
    [][/\ (GuardStep /\ Len(last'.checks) >= 3) =>
             LET chat_id == last'.u.chat_id IN
             /\ last'.reads = IF chat_id \in DOMAIN BADWORD_RE_CACHE THEN 0 ELSE 1
             /\ chat_id \in DOMAIN BADWORD_RE_CACHE'
             /\ find(col, chat_id) = EmptyBag => BADWORD_RE_CACHE'[chat_id] = None
             /\ ~needs_load(BADWORD_RE_CACHE', chat_id)
       /\ \A chat_id \in DOMAIN BADWORD_RE_CACHE :
             (chat_id \notin DOMAIN BADWORD_RE_CACHE'
                \/ BADWORD_RE_CACHE'[chat_id] # BADWORD_RE_CACHE[chat_id]) =>
                ConfiguredStep(chat_id)
      ]_vars

\* C17 witness: guard found the entry None of a chat without words and did
\* not read the store
EmptyEntryReused ==
    /\ last.op = "guard"
    /\ Len(last.checks) >= 3
    /\ last.reads = 0
    /\ BADWORD_RE_CACHE[last.u.chat_id] = None
    /\ find(col, last.u.chat_id) = EmptyBag

-----------------------------------------------------------------------------
(* Properties of what guard leaves alone (under Spec).                     *)

\* C11: guard on a message of a chat that is no group or supergroup, or on
\* an update without text, leaves SEEN and BADWORD_RE_CACHE unchanged, does
\* not read the store, does not call delete and does not raise.
IgnoredTouchNothing ==
    [][(GuardStep /\ (last'.u.text = <<>> \/ last'.u.chat_type \notin GROUPS)) =>
          /\ SEEN' = SEEN
          /\ BADWORD_RE_CACHE' = BADWORD_RE_CACHE
          /\ last'.reads = 0
          /\ last'.deletes = 0
          /\ last'.checks = <<>>
          /\ ~last'.raised
      ]_vars

\* C11 witness: a text message of a private chat was ignored while SEEN
\* holds entries and the chat has no entry in the cache
PrivateTextIgnored ==
    /\ last.op = "guard"
    /\ last.u.chat_type = "private"
    /\ last.u.text # <<>>
    /\ SEEN # EmptyTable
    /\ last.u.chat_id \notin DOMAIN BADWORD_RE_CACHE
    /\ last.checks = <<>>

-----------------------------------------------------------------------------
(* Properties of guard under failures of its collaborators (under          *)
(* SpecFaults).                                                            *)

\* C12: when the delete call fails, guard does not raise, has called delete
\* once, and leaves SEEN and BADWORD_RE_CACHE as it leaves them when the call
\* succeeds; a flagged observation has incremented count and set last_ts.
DeleteIsBestEffort ==
    [][(GuardStep /\ last'.deletion = "error") =>
          LET ok == guard_run(last'.u, clock', SEEN, BADWORD_RE_CACHE, col,
                              "ok", "ok")
          IN  /\ ~last'.raised
              /\ last'.deletes = 1
              /\ ok.deletes = 1
              /\ SEEN' = ok.SEEN
              /\ BADWORD_RE_CACHE' = ok.CACHE
              /\ last'.verdict = "flag" =>
                    /\ SEEN'[KeyOf(last'.u)].count = SEEN[KeyOf(last'.u)].count + 1
                    /\ SEEN'[KeyOf(last'.u)].last_ts = clock'
      ]_vars

\* C12 witness: the delete call failed for a message flagged as the third of
\* its run
FlaggedDeleteFailed ==
    /\ last.op = "guard"
    /\ last.deletion = "error"
    /\ last.verdict = "flag"
    /\ SEEN[KeyOf(last.u)].count = 3

\* C13: a failure of the store read guard makes on a cache miss does not
\* leave guard as an exception.
StoreFailureCaught ==
    (last.op = "guard" /\ last.store = "error") => ~last.raised

\* C19: guard on a group message that it deletes for a mention, a link or a
\* badword leaves SEEN as it was: no entry is pruned, inserted or updated.
ShortCircuitLeavesSEEN ==
    [][(GuardStep /\ last'.deletes = 1 /\ last'.verdict = "none") =>
          /\ SEEN' = SEEN
          /\ clock' = clock
          /\ last'.checks \in
                {<<"mention">>, <<"mention", "link">>, <<"mention", "link", "badword">>}
      ]_vars

\* C19 witness: a message was deleted for its link while SEEN holds entries
LinkDeletedBesideEntries ==
    /\ GuardedGroupText
    /\ last.checks = <<"mention", "link">>
    /\ last.deletes = 1
    /\ SEEN # EmptyTable

\* C15: a group message without a sender that passes the mention, link and
\* badword checks is tracked under the sentinel user id: guard does not
\* raise and SEEN holds the key (chat, sentinel, normalized text).
AnonymousSenderTracked ==
    (GuardedGroupText /\ last.u.from_user = NoUser /\ last.deletes = 0
        /\ Len(last.checks) >= 3) =>
        /\ ~last.raised
        /\ <<last.u.chat_id, NoUser, normalize_text(last.u.text)>> \in DOMAIN SEEN

-----------------------------------------------------------------------------
(* Properties of interleaved handlers (under SpecAsync).                   *)

\* C14: with guard invocations interleaved at their awaits, every
\* observation of a key within SPAM_WINDOW of the previous one finds the
\* previous entry and adds one to its count, and a key of SEEN all of whose
\* observations were within the window of one another has as count the
\* number of its observations.
InterleavedCountExact ==
    /\ \A k \in DOMAIN obs : \A i \in 2..Len(obs[k]) :
          Gap(obs[k], i) <= SPAM_WINDOW => obs[k][i].count = obs[k][i - 1].count + 1
    /\ \A k \in DOMAIN SEEN :
          /\ k \in DOMAIN obs
          /\ (\A i \in 2..Len(obs[k]) : Gap(obs[k], i) <= SPAM_WINDOW) =>
                SEEN[k].count = Len(obs[k])

\* C14 witness: two messages of one key were observed while a third guard
\* of the same key, entered before either was observed, is still suspended
\* at its store read
ObservedWhileSuspended ==
    \E t \in BagToSet(tasks) :
        /\ t.op = "guard"
        /\ t.pc = "found"
        /\ KeyOf(t.u) \in DOMAIN SEEN
        /\ SEEN[KeyOf(t.u)].count = 2

\* C20: once every handler has completed, each entry of BADWORD_RE_CACHE is
\* the matcher built from the words the collection then holds for the chat.
SettledCacheMatchesStore ==
    tasks = EmptyBag =>
        \A chat_id \in DOMAIN BADWORD_RE_CACHE :
            BADWORD_RE_CACHE[chat_id] = build_re(find(col, chat_id))

-----------------------------------------------------------------------------
(* Properties of normalize_text (under SpecNormalize).                     *)

\* C16: normalize_text(normalize_text(x)) = normalize_text(x), and
\* normalize_text(x) neither starts nor ends with a whitespace character
\* and has no two whitespace characters in a row.
NormalizeIdempotent ==
    /\ Len(norm) >= 2 =>
          LET y == norm[2] IN
          /\ y # <<>> => ~IsSpace(y[1]) /\ ~IsSpace(y[Len(y)])
          /\ \A i \in 1..(Len(y) - 1) : ~(IsSpace(y[i]) /\ IsSpace(y[i + 1]))
    /\ Len(norm) = 3 => norm[3] = norm[2]

\* C16 witness: a string with leading whitespace, an upper-case letter and
\* a run of two different whitespace characters, normalized twice
NormalizedTwice ==
    /\ Len(norm) = 3
    /\ norm[1] = <<" ", "B", "\t", "\n", "a">>
    /\ norm[2] = <<"b", " ", "a">>
    /\ norm[3] = norm[2]

====
